---- MODULE Spec2Model ----
(***************************************************************************)
(* Model of the reverse proxy / static host of server.js.                  *)
(*                                                                         *)
(* Strings that the code inspects (URLs, paths) are sequences of           *)
(* one-character strings, so that includes(), startsWith(), the anchored   *)
(* regular expression of pathRewrite and the mount-path match of           *)
(* app.use('/api', ...) are computed character by character.               *)
(*                                                                         *)
(* The libraries behave as server.js configures them: cors ends an OPTIONS *)
(* request itself (preflightContinue is not set); express matches mount    *)
(* paths and routes by whole segments without regard to case and hands the *)
(* mounted middleware req.url without the mount path; the proxy middleware *)
(* assigns the result of pathRewrite to req.url, copies the inbound        *)
(* headers to the outgoing request and calls onProxyReq, onProxyRes and    *)
(* onError on the events of that request. With followRedirects the proxy  *)
(* follows a redirect of the upstream itself and relays the answer to the  *)
(* request it sent again. An exception thrown in an event handler is not   *)
(* caught and ends the process; so does process.exit in a signal handler.  *)
(***************************************************************************)
EXTENDS Integers, Sequences, FiniteSets, TLC

(***************************************************************************)
(* Bounds of the model.                                                    *)
(***************************************************************************)
\* number of request slots the state carries
MaxReqs == 2
\* number of pieces a generated URL of the path-rewrite specification has
MaxPieces == 5
\* redirects of the upstream one outgoing request follows before it fails
MaxRedirects == 1
\* calls of the browser application that run together
MaxCalls == 2
\* token pairs the controller issues
MaxTokens == 2
\* refreshes one authenticated request goes through
MaxRefreshes == 2
\* logout() calls nobody awaits that are pending together
MaxDetached == 1

(***************************************************************************)
(* String literals of the program.                                         *)
(***************************************************************************)
S_slash == << "/" >>
S_api == << "/", "a", "p", "i" >>
S_API == << "/", "A", "P", "I" >>
S_apix == << "/", "a", "p", "i", "x" >>
S_apiSlash == << "/", "a", "p", "i", "/" >>
S_health == << "/", "h", "e", "a", "l", "t", "h" >>
S_management == << "/", "m", "a", "n", "a", "g", "e", "m", "e", "n", "t" >>
S_platformmanager ==
    << "/", "p", "l", "a", "t", "f", "o", "r", "m", "m", "a", "n", "a", "g", "e", "r" >>
S_v1 == << "/", "v", "1" >>
S_x == << "x" >>
S_query == << "?", "q", "=" >>
S_indexHtml == << "/", "i", "n", "d", "e", "x", ".", "h", "t", "m", "l" >>
S_appJs == << "/", "a", "p", "p", ".", "j", "s" >>
S_dash == << "/", "d", "a", "s", "h" >>

\* the argument of path.includes(...) at line 40
PlatformManagerMarker == S_platformmanager \o S_slash
\* the text the regular expression of line 41 matches at the start of the path
ManagementPlatformManager == S_management \o S_platformmanager

(***************************************************************************)
(* String operations of JavaScript, on sequences of characters.            *)
(***************************************************************************)
StartsWith(s, pre) ==
    /\ Len(pre) <= Len(s)
    /\ SubSeq(s, 1, Len(pre)) = pre

Includes(s, sub) ==
    \E k \in 0..(Len(s) - Len(sub)) : SubSeq(s, k + 1, k + Len(sub)) = sub

Drop(s, n) == SubSeq(s, n + 1, Len(s))

ToLowerChar(c) ==
    CASE c = "A" -> "a"
      [] c = "P" -> "p"
      [] c = "I" -> "i"
      [] OTHER -> c

ToLower(s) == [k \in 1..Len(s) |-> ToLowerChar(s[k])]

\* position of the first "?" of a URL, or Len + 1 when it has none
QueryStart(url) ==
    IF \E k \in 1..Len(url) : url[k] = "?"
    THEN CHOOSE k \in 1..Len(url) : url[k] = "?" /\ \A j \in 1..(k - 1) : url[j] # "?"
    ELSE Len(url) + 1

\* parseUrl(req).pathname : the URL up to its query string
Pathname(url) == SubSeq(url, 1, QueryStart(url) - 1)

(***************************************************************************)
(* proxyOptions.pathRewrite                                                *)
(***************************************************************************)
\* a rewrite whose replacement text is empty: the matched prefix is dropped whole
pathRewrite_dropsMatch(path) ==
    IF Includes(path, PlatformManagerMarker)
    THEN IF StartsWith(path, ManagementPlatformManager)
         THEN Drop(path, Len(ManagementPlatformManager))
         ELSE path
    ELSE path

\* a rewrite whose expression is ^\/management alone: a leading /management
\* goes whatever follows it
pathRewrite_stripManagement(path) ==
    IF Includes(path, PlatformManagerMarker)
    THEN IF StartsWith(path, S_management)
         THEN Drop(path, Len(S_management))
         ELSE path
    ELSE path

pathRewrite(path) ==
    IF Includes(path, PlatformManagerMarker)
    THEN IF StartsWith(path, ManagementPlatformManager)
         THEN S_platformmanager \o Drop(path, Len(ManagementPlatformManager))
         ELSE path
    ELSE path

(***************************************************************************)
(* app.use('/api', ...) : the mount-path match of the router and the       *)
(* rewriting of req.url for the mounted middleware.                        *)
(***************************************************************************)
\* a mount match by plain string prefix, with no segment boundary after /api
MountMatched_stringPrefix(pathname) ==
    IF StartsWith(ToLower(pathname), S_api)
    THEN SubSeq(pathname, 1, Len(S_api))
    ELSE << >>

\* a mount that takes only what lies below /api/, not /api itself
MountMatched_belowOnly(pathname) ==
    IF StartsWith(ToLower(pathname), S_apiSlash)
    THEN SubSeq(pathname, 1, Len(S_api))
    ELSE << >>

\* the text the layer's expression ^\/api\/?(?=\/|$) (case-insensitive)
\* matches at the start of the pathname; the empty sequence when none
MountMatched(pathname) ==
    IF ~ StartsWith(ToLower(pathname), S_api)
    THEN << >>
    ELSE LET rest == Drop(pathname, Len(S_api))
         IN  IF rest = << >> THEN SubSeq(pathname, 1, Len(S_api))
             ELSE IF rest[1] # "/" THEN << >>
             ELSE IF Len(rest) = 1 \/ rest[2] = "/"
                  THEN SubSeq(pathname, 1, Len(S_api) + 1)
                  ELSE SubSeq(pathname, 1, Len(S_api))

MountMatches(url) == MountMatched(Pathname(url)) # << >>

\* req.url as the mounted middleware sees it
StripMount(url) ==
    LET stripped == Drop(url, Len(MountMatched(Pathname(url))))
    IN  IF stripped = << >> \/ stripped[1] # "/" THEN S_slash \o stripped ELSE stripped

(***************************************************************************)
(* Process configuration, fixed at start-up.                               *)
(***************************************************************************)
\* proxyOptions.timeout : idle timeout set on the inbound socket
timeout == 60000
\* proxyOptions.proxyTimeout : idle timeout set on the outgoing request
proxyTimeout == 60000

Slots == 1..MaxReqs
\* the slot the sequential specification handles its requests in
MainSlots == {1}

Absent == "<absent>"

Methods == {"GET", "POST", "PUT", "DELETE", "PATCH", "OPTIONS"}

\* URLs a caller sends in the server specification
ServerUrls ==
    { S_slash, S_indexHtml, S_health, S_appJs, S_dash, S_apix,
      S_api, S_api \o S_v1, S_API \o S_v1,
      S_api \o S_management \o S_platformmanager \o S_v1 }

AuthValues == {Absent, "", "Bearer t1"}
OriginValues == {Absent, "https://app.example"}

\* contents of the build directory the process may be started on
FileSets == { {S_indexHtml, S_appJs}, {S_appJs} }

(***************************************************************************)
(* Requests, responses and their headers.                                  *)
(***************************************************************************)
ACAO == "access-control-allow-origin"
ACAC == "access-control-allow-credentials"
HeaderNames == {ACAO, ACAC, "cache-control", "pragma", "expires", "content-type"}

NoHeaders == [h \in HeaderNames |-> Absent]

NoReq ==
    [method |-> "", originalUrl |-> << >>, url |-> << >>,
     headers |-> [authorization |-> Absent, origin |-> Absent], body |-> ""]

\* redirects: how many redirects of the upstream the outgoing request followed
NoProxyReq ==
    [method |-> "", path |-> << >>,
     headers |-> [authorization |-> Absent, origin |-> Absent], body |-> "",
     redirects |-> 0]

NoBody == [type |-> "none"]

NoProxyRes == [statusCode |-> 0, headers |-> << >>, body |-> NoBody]

NoRes == [status |-> 0, headers |-> NoHeaders, body |-> NoBody]

\* res.setHeader(name, value) : header names are case-insensitive
LowerHeaderName(name) ==
    CASE name = "Access-Control-Allow-Origin" -> ACAO
      [] name = "Access-Control-Allow-Credentials" -> ACAC
      [] name = "Cache-Control" -> "cache-control"
      [] name = "Pragma" -> "pragma"
      [] name = "Expires" -> "expires"
      [] name = "Content-Type" -> "content-type"
      [] OTHER -> name

setHeader(r, name, value) ==
    [r EXCEPT !.headers[LowerHeaderName(name)] = value]

\* obj[key] = value on an object kept as the list of its <<key, value>> pairs
\* in insertion order
SetProp(obj, key, value) ==
    IF \E k \in 1..Len(obj) : obj[k][1] = key
    THEN [k \in 1..Len(obj) |-> IF obj[k][1] = key THEN << key, value >> ELSE obj[k]]
    ELSE Append(obj, << key, value >>)

(***************************************************************************)
(* State.                                                                  *)
(***************************************************************************)
VARIABLES
    proc,       \* the process: running, exited on a signal, or crashed
    config,     \* the upstream target, the listen port and the static root
    files,      \* the files of the build directory
    phase,      \* per slot: "idle", "awaiting", "resolving", "relaying", "responded",
                \* "destroyed"
    io,         \* per slot: what handling the request touched ("upstream", "fs")
    req,        \* per slot: the inbound request (req)
    proxyReq,   \* per slot: the request sent to the upstream (proxyReq)
    proxyRes,   \* per slot: the upstream's response as it arrived (proxyRes)
    res,        \* per slot: the response (res)
    handler,    \* per slot: the middleware that took the request
    failure,    \* per slot: the transport failure of the upstream call, if any
    urlIn       \* path-rewrite specification: the URL the caller requests

\* The browser application: the ApiService instance and the App component.
VARIABLES
    accessToken,    \* ApiService.accessToken
    refreshToken,   \* ApiService.refreshToken
    localStorage,   \* the entries access_token, refresh_token and admin_role
    call,           \* per call slot: the method running, where it stands, its outcome
    detached,       \* logout() calls nobody awaits whose revocation request is pending
    isAuthenticatedUi,  \* the isAuthenticated state of App: false shows the login form
    issued,         \* token pairs the controller has issued
    submitted,      \* per refresh token: times it was sent to /v1/oauth2/refreshToken
    loggedOut,      \* a logout() has resolved and no login() has succeeded since
    returned        \* what the step just taken returned to the caller of a method

serverVars ==
    << proc, config, files, phase, io, req, proxyReq, proxyRes, res, handler, failure, urlIn >>

clientVars ==
    << accessToken, refreshToken, localStorage, call, detached, isAuthenticatedUi, issued,
       submitted, loggedOut, returned >>

vars == << serverVars, clientVars >>

\* calls of ApiService and App methods that run together
Calls == 1..MaxCalls

\* null, and the values the controller issues with its n-th token pair
Null == << "null", 0 >>
AccessTokenOf(n) == << "access", n >>
RefreshTokenOf(n) == << "refresh", n >>
AdminRoleOf(n) == << "role", n >>

StorageKeys == {"access_token", "refresh_token", "admin_role"}

EmptyStorage == [k \in StorageKeys |-> Null]

NoCall == [op |-> "none", pc |-> "idle", refreshes |-> 0]

NoReturn == [op |-> "none", outcome |-> "none", revocation |-> "none", refreshes |-> 0]

\* the server specifications: no page is open
NoBrowser ==
    /\ accessToken = Null
    /\ refreshToken = Null
    /\ localStorage = EmptyStorage
    /\ call = [c \in Calls |-> NoCall]
    /\ detached = 0
    /\ isAuthenticatedUi = FALSE
    /\ issued = 0
    /\ submitted = [n \in 0..MaxTokens |-> 0]
    /\ loggedOut = FALSE
    /\ returned = NoReturn

(***************************************************************************)
(* app.use(cors({origin: true, credentials: true, ...}))                   *)
(***************************************************************************)
\* a middleware that keeps the last Origin it saw in a variable of the module
\* and answers with it a request that has none
corsHeaders_sharedOrigin(request, r) ==
    LET seen == { req[j].headers.origin : j \in Slots } \ {Absent}
        origin == IF request.headers.origin # Absent THEN request.headers.origin
                  ELSE IF seen # {} THEN CHOOSE o \in seen : TRUE
                  ELSE Absent
        withOrigin ==
            IF origin # Absent
            THEN setHeader(r, "Access-Control-Allow-Origin", origin)
            ELSE r
    IN  setHeader(withOrigin, "Access-Control-Allow-Credentials", "true")

\* the headers the middleware sets on the response of any request
corsHeaders(request, r) ==
    LET withOrigin ==
            IF request.headers.origin # Absent
            THEN setHeader(r, "Access-Control-Allow-Origin", request.headers.origin)
            ELSE r
    IN  setHeader(withOrigin, "Access-Control-Allow-Credentials", "true")

\* an OPTIONS request is answered by the middleware itself and goes no further
corsPreflight(request, r) ==
    [corsHeaders(request, r) EXCEPT !.status = 204, !.body = [type |-> "empty"]]

(***************************************************************************)
(* app.get('/health', ...)                                                 *)
(***************************************************************************)
HealthMatches(url) ==
    ToLower(Pathname(url)) \in {S_health, S_health \o S_slash}

\* a health route that reports the upstream: 503 once a proxied request failed
healthHandler_upstreamAware(r) ==
    [setHeader(r, "Content-Type", "application/json")
        EXCEPT !.status = IF \E j \in Slots : failure[j] # "none" THEN 503 ELSE 200,
               !.body = [type |-> "json", status |-> "ok", timestamp |-> "now"]]

healthHandler(r) ==
    [setHeader(r, "Content-Type", "application/json")
        EXCEPT !.status = 200,
               !.body = [type |-> "json", status |-> "ok", timestamp |-> "now"]]

(***************************************************************************)
(* proxyOptions.onProxyReq, onProxyRes, onError                            *)
(***************************************************************************)
\* the outgoing request http-proxy builds: method and headers copied from the
\* inbound request, path taken from req.url
setupOutgoing(request) ==
    [method |-> request.method, path |-> request.url, headers |-> request.headers,
     body |-> request.body, redirects |-> 0]

\* a hook that sets a token of its own in place of the caller's
onProxyReq_ownToken(pReq, request) ==
    IF request.headers.authorization # Absent /\ request.headers.authorization # ""
    THEN [pReq EXCEPT !.headers.authorization = "Bearer proxy"]
    ELSE pReq

onProxyReq(pReq, request) ==
    IF request.headers.authorization # Absent /\ request.headers.authorization # ""
    THEN [pReq EXCEPT !.headers.authorization = request.headers.authorization]
    ELSE pReq

\* a hook that leaves the upstream's headers as they came
onProxyRes_untouched(pRes, request) == pRes

onProxyRes(pRes, request) ==
    LET origin == IF request.headers.origin # Absent /\ request.headers.origin # ""
                  THEN request.headers.origin
                  ELSE "*"
        h1 == SetProp(pRes.headers, "Access-Control-Allow-Origin", origin)
    IN  [pRes EXCEPT !.headers = SetProp(h1, "Access-Control-Allow-Credentials", "true")]

onError(err, request, r) ==
    [setHeader(r, "Content-Type", "application/json")
        EXCEPT !.status = 500,
               !.body = [type |-> "json", error |-> "Proxy Error",
                         message |-> err.message, path |-> request.url]]

\* http-proxy copies the upstream's headers onto the response in the order of
\* the keys of proxyRes.headers, then its status code; the body is piped
RECURSIVE writeHeaders(_, _)
writeHeaders(r, hs) ==
    IF hs = << >> THEN r
    ELSE writeHeaders(setHeader(r, Head(hs)[1], Head(hs)[2]), Tail(hs))

\* a relay that answers 200 whatever the upstream's status
relay_statusOk(pRes, r) ==
    [writeHeaders(r, pRes.headers) EXCEPT !.status = 200, !.body = pRes.body]

relay(pRes, r) ==
    [writeHeaders(r, pRes.headers) EXCEPT !.status = pRes.statusCode, !.body = pRes.body]

(***************************************************************************)
(* The upstream and the transport to it.                                   *)
(***************************************************************************)
UpstreamStatuses == {200, 302, 304, 404, 500}

\* proxyOptions.followRedirects
followRedirects == TRUE

\* the statuses the upstream sends with a Location header
IsRedirect(status) == status \in {301, 302, 303, 307, 308}

S_moved == << "/", "m", "o", "v", "e", "d" >>

\* the request sent again to the Location of a redirect: after 301 and 302 a
\* POST is sent as a GET without its body, after 303 every method but GET
TooManyRedirects == "ERR_FR_TOO_MANY_REDIRECTS"

redirected(pReq, status) ==
    LET toGet == \/ status \in {301, 302} /\ pReq.method = "POST"
                 \/ status = 303 /\ pReq.method # "GET"
    IN  [pReq EXCEPT !.path = S_moved,
                     !.method = IF toGet THEN "GET" ELSE @,
                     !.body = IF toGet THEN "" ELSE @,
                     !.redirects = @ + 1]

\* CORS headers the upstream may send itself
UpstreamHeaderLists ==
    { << >>,
      << << ACAO, "*" >> >>,
      << << ACAO, "https://other.example" >>, << ACAC, "false" >> >> }

\* the answers of the upstream: status and headers
UpstreamAnswers ==
    { << 200, hs >> : hs \in UpstreamHeaderLists }
        \cup { << status, << >> >> : status \in UpstreamStatuses \ {200} }

UpstreamBody == [type |-> "upstream"]

\* transport errors of the outgoing request
ErrorCodes == {"ECONNREFUSED", "ECONNRESET", "EPROTO"}

ErrMessage(code) ==
    CASE code = "ECONNREFUSED" -> "connect ECONNREFUSED"
      [] code = TooManyRedirects -> "Maximum number of redirects exceeded"
      [] code = "ECONNRESET" -> "socket hang up"
      [] code = "EPROTO" -> "write EPROTO"

Err(code) == [code |-> code, message |-> ErrMessage(code)]

(***************************************************************************)
(* app.use(express.static(buildPath, {setHeaders})) and app.get('*', ...)  *)
(***************************************************************************)
EndsWith(s, suf) ==
    /\ Len(suf) <= Len(s)
    /\ SubSeq(s, Len(s) - Len(suf) + 1, Len(s)) = suf

Ext_html == << ".", "h", "t", "m", "l" >>
\* the alternatives of \.(js|css)$
LongLivedExts == { << ".", "j", "s" >>, << ".", "c", "s", "s" >> }
\* the alternatives of \.(jpg|jpeg|png|gif|svg|ico|woff|woff2|ttf|eot)$
MediumLivedExts ==
    { << ".", "j", "p", "g" >>, << ".", "j", "p", "e", "g" >>, << ".", "p", "n", "g" >>,
      << ".", "g", "i", "f" >>, << ".", "s", "v", "g" >>, << ".", "i", "c", "o" >>,
      << ".", "w", "o", "f", "f" >>, << ".", "w", "o", "f", "f", "2" >>,
      << ".", "t", "t", "f" >>, << ".", "e", "o", "t" >> }

noCacheHeaders(r) ==
    setHeader(setHeader(setHeader(r,
        "Cache-Control", "no-cache, no-store, must-revalidate"),
        "Pragma", "no-cache"),
        "Expires", "0")

\* a hook whose script test is not anchored at the end of the path
setHeaders_unanchored(r, filePath) ==
    IF EndsWith(filePath, Ext_html) THEN noCacheHeaders(r)
    ELSE IF \E e \in LongLivedExts : Includes(filePath, e)
         THEN setHeader(r, "Cache-Control", "public, max-age=31536000, immutable")
    ELSE IF \E e \in MediumLivedExts : EndsWith(filePath, e)
         THEN setHeader(r, "Cache-Control", "public, max-age=604800")
    ELSE r

setHeaders(r, filePath) ==
    IF EndsWith(filePath, Ext_html) THEN noCacheHeaders(r)
    ELSE IF \E e \in LongLivedExts : EndsWith(filePath, e)
         THEN setHeader(r, "Cache-Control", "public, max-age=31536000, immutable")
    ELSE IF \E e \in MediumLivedExts : EndsWith(filePath, e)
         THEN setHeader(r, "Cache-Control", "public, max-age=604800")
    ELSE r

\* the file express.static looks up for a pathname: the index document for a
\* directory
StaticFile(pathname) ==
    IF EndsWith(pathname, S_slash) THEN pathname \o Tail(S_indexHtml) ELSE pathname

\* the file is sent: the setHeaders hook runs first, then the default
\* Cache-Control of the static middleware (maxAge 0) if the hook set none
serveStatic(r, filePath) ==
    LET r1 == setHeaders(r, filePath)
        r2 == IF r1.headers["cache-control"] = Absent
              THEN setHeader(r1, "Cache-Control", "public, max-age=0")
              ELSE r1
    IN  [r2 EXCEPT !.status = 200, !.body = [type |-> "file", file |-> filePath]]

\* the response of express to a request no route matched
notFound(r) ==
    [setHeader(r, "Content-Type", "text/html") EXCEPT !.status = 404, !.body = [type |-> "html"]]

\* a catch-all that tests the path for /api with no slash after it
catchAll_apiNoSlash(request, r, fs) ==
    IF StartsWith(Pathname(request.url), S_api)
    THEN [setHeader(r, "Content-Type", "application/json")
            EXCEPT !.status = 404,
                   !.body = [type |-> "json", error |-> "API endpoint not found"]]
    ELSE IF S_indexHtml \in fs
         THEN [noCacheHeaders(r) EXCEPT !.status = 200,
                                        !.body = [type |-> "file", file |-> S_indexHtml]]
         ELSE notFound(noCacheHeaders(r))

\* a catch-all that sends the entry document without the no-cache headers
catchAll_cacheable(request, r, fs) ==
    IF StartsWith(Pathname(request.url), S_apiSlash)
    THEN [setHeader(r, "Content-Type", "application/json")
            EXCEPT !.status = 404,
                   !.body = [type |-> "json", error |-> "API endpoint not found"]]
    ELSE IF S_indexHtml \in fs
         THEN [r EXCEPT !.status = 200,
                        !.body = [type |-> "file", file |-> S_indexHtml]]
         ELSE notFound(r)

\* app.get('*') : the JSON 404 of an API path, else the entry document
catchAll(request, r, fs) ==
    IF StartsWith(Pathname(request.url), S_apiSlash)
    THEN [setHeader(r, "Content-Type", "application/json")
            EXCEPT !.status = 404,
                   !.body = [type |-> "json", error |-> "API endpoint not found"]]
    ELSE IF S_indexHtml \in fs
         THEN [noCacheHeaders(r) EXCEPT !.status = 200,
                                        !.body = [type |-> "file", file |-> S_indexHtml]]
         ELSE notFound(noCacheHeaders(r))

Running == [state |-> "running", exitCode |-> -1]

\* PORT, CAMPUS_CONTROLLER_URL and buildPath with their defaults
Config ==
    [target |-> "https://tsophiea.ddns.net", port |-> "3000", buildPath |-> "build"]

InitServer ==
    /\ proc = Running
    /\ config = Config
    /\ files \in FileSets
    /\ phase = [i \in Slots |-> "idle"]
    /\ io = [i \in Slots |-> {}]
    /\ req = [i \in Slots |-> NoReq]
    /\ proxyReq = [i \in Slots |-> NoProxyReq]
    /\ proxyRes = [i \in Slots |-> NoProxyRes]
    /\ res = [i \in Slots |-> NoRes]
    /\ handler = [i \in Slots |-> "none"]
    /\ failure = [i \in Slots |-> "none"]

Init ==
    /\ InitServer
    /\ NoBrowser
    /\ urlIn = << >>

\* the body a caller sends with a request of the method
RequestBody(m) == IF m \in {"POST", "PUT", "PATCH"} THEN "payload" ELSE ""

NewRequest(m, url, auth, origin) ==
    [method |-> m, originalUrl |-> url, url |-> url,
     headers |-> [authorization |-> auth, origin |-> origin], body |-> RequestBody(m)]

\* a chain whose cors middleware passes preflights on (preflightContinue)
Dispatch_preflightContinue(request) ==
    IF request.method = "GET" /\ HealthMatches(request.url) THEN "health"
    ELSE IF MountMatches(request.url) THEN "proxy"
    ELSE IF request.method = "GET" THEN "static"
    ELSE "none"

\* a chain without the /health route
Dispatch_noHealth(request) ==
    IF request.method = "OPTIONS" THEN "cors"
    ELSE IF MountMatches(request.url) THEN "proxy"
    ELSE IF request.method = "GET" THEN "static"
    ELSE "none"

\* the middleware of the chain that takes a request, in the order of app.use
Dispatch(request) ==
    IF request.method = "OPTIONS" THEN "cors"
    ELSE IF request.method = "GET" /\ HealthMatches(request.url) THEN "health"
    ELSE IF MountMatches(request.url) THEN "proxy"
    ELSE IF request.method = "GET" THEN "static"
    ELSE "none"

(***************************************************************************)
(* Actions: one per handler of the chain, taken when a request arrives.    *)
(***************************************************************************)
\* cors answers a preflight itself
Preflight(i, request) ==
    /\ proc = Running
    /\ phase[i] = "idle"
    /\ Dispatch(request) = "cors"
    /\ req' = [req EXCEPT ![i] = request]
    /\ res' = [res EXCEPT ![i] = corsPreflight(request, NoRes)]
    /\ handler' = [handler EXCEPT ![i] = "cors"]
    /\ phase' = [phase EXCEPT ![i] = "responded"]
    /\ UNCHANGED << clientVars, proc, config, files, io, proxyReq, proxyRes, failure, urlIn >>

Health(i, request) ==
    /\ proc = Running
    /\ phase[i] = "idle"
    /\ Dispatch(request) = "health"
    /\ req' = [req EXCEPT ![i] = request]
    /\ res' = [res EXCEPT ![i] = healthHandler(corsHeaders(request, NoRes))]
    /\ handler' = [handler EXCEPT ![i] = "health"]
    /\ phase' = [phase EXCEPT ![i] = "responded"]
    /\ UNCHANGED << clientVars, proc, config, files, io, proxyReq, proxyRes, failure, urlIn >>

\* a proxy that sends one request to the upstream at a time
Forward_oneAtATime(i, request) ==
    /\ proc = Running
    /\ phase[i] = "idle"
    /\ \A j \in Slots : phase[j] # "awaiting"
    /\ Dispatch(request) = "proxy"
    /\ LET mounted == [request EXCEPT !.url = pathRewrite(StripMount(request.url))]
       IN  /\ req' = [req EXCEPT ![i] = mounted]
           /\ proxyReq' = [proxyReq EXCEPT ![i] = onProxyReq(setupOutgoing(mounted), mounted)]
    /\ res' = [res EXCEPT ![i] = corsHeaders(request, NoRes)]
    /\ handler' = [handler EXCEPT ![i] = "proxy"]
    /\ phase' = [phase EXCEPT ![i] = "awaiting"]
    /\ io' = [io EXCEPT ![i] = {"upstream"}]
    /\ UNCHANGED << clientVars, proc, config, files, proxyRes, failure, urlIn >>

\* the proxy middleware mounted on /api: req.url loses the mount path, is
\* rewritten, and the request goes out to the upstream
Forward(i, request) ==
    /\ proc = Running
    /\ phase[i] = "idle"
    /\ Dispatch(request) = "proxy"
    /\ LET mounted == [request EXCEPT !.url = pathRewrite(StripMount(request.url))]
       IN  /\ req' = [req EXCEPT ![i] = mounted]
           /\ proxyReq' = [proxyReq EXCEPT ![i] = onProxyReq(setupOutgoing(mounted), mounted)]
    /\ res' = [res EXCEPT ![i] = corsHeaders(request, NoRes)]
    /\ handler' = [handler EXCEPT ![i] = "proxy"]
    /\ phase' = [phase EXCEPT ![i] = "awaiting"]
    /\ io' = [io EXCEPT ![i] = {"upstream"}]
    /\ UNCHANGED << clientVars, proc, config, files, proxyRes, failure, urlIn >>

\* express.static starts looking the file up
StaticLookup(i, request) ==
    /\ proc = Running
    /\ phase[i] = "idle"
    /\ Dispatch(request) = "static"
    /\ req' = [req EXCEPT ![i] = request]
    /\ res' = [res EXCEPT ![i] = corsHeaders(request, NoRes)]
    /\ handler' = [handler EXCEPT ![i] = "static"]
    /\ phase' = [phase EXCEPT ![i] = "resolving"]
    /\ io' = [io EXCEPT ![i] = {"fs"}]
    /\ UNCHANGED << clientVars, proc, config, files, proxyReq, proxyRes, failure, urlIn >>

\* no middleware and no route takes the request
Unrouted(i, request) ==
    /\ proc = Running
    /\ phase[i] = "idle"
    /\ Dispatch(request) = "none"
    /\ req' = [req EXCEPT ![i] = request]
    /\ res' = [res EXCEPT ![i] = notFound(corsHeaders(request, NoRes))]
    /\ handler' = [handler EXCEPT ![i] = "none"]
    /\ phase' = [phase EXCEPT ![i] = "responded"]
    /\ UNCHANGED << clientVars, proc, config, files, io, proxyReq, proxyRes, failure, urlIn >>

\* the file is there and is served, or the request falls through to app.get('*')
StaticDone(i) ==
    /\ proc = Running
    /\ phase[i] = "resolving"
    /\ LET file == StaticFile(Pathname(req[i].url))
       IN  IF file \in files
           THEN /\ res' = [res EXCEPT ![i] = serveStatic(res[i], file)]
                /\ UNCHANGED handler
           ELSE /\ res' = [res EXCEPT ![i] = catchAll(req[i], res[i], files)]
                /\ handler' = [handler EXCEPT ![i] = "spa"]
    /\ phase' = [phase EXCEPT ![i] = "responded"]
    /\ UNCHANGED << clientVars, proc, config, files, io, req, proxyReq, proxyRes, failure, urlIn >>

\* the upstream answers. A redirect is followed: the request is sent again to
\* the Location, or fails once MaxRedirects were followed. Any other answer goes
\* through onProxyRes, then its status and headers are written to the response
\* and the body starts to be piped
UpstreamResponds(i, status, hs) ==
    /\ proc = Running
    /\ phase[i] = "awaiting"
    /\ LET pRes == [statusCode |-> status, headers |-> hs, body |-> UpstreamBody]
       IN  /\ proxyRes' = [proxyRes EXCEPT ![i] = pRes]
           /\ IF followRedirects /\ IsRedirect(status)
              THEN IF proxyReq[i].redirects < MaxRedirects
                   THEN /\ proxyReq' = [proxyReq EXCEPT ![i] = redirected(@, status)]
                        /\ UNCHANGED << res, phase, failure >>
                   ELSE /\ res' = [res EXCEPT ![i] =
                                      onError(Err(TooManyRedirects), req[i], res[i])]
                        /\ failure' = [failure EXCEPT ![i] = TooManyRedirects]
                        /\ phase' = [phase EXCEPT ![i] = "responded"]
                        /\ UNCHANGED proxyReq
              ELSE /\ res' = [res EXCEPT ![i] = relay(onProxyRes(pRes, req[i]), res[i])]
                   /\ phase' = [phase EXCEPT ![i] = "relaying"]
                   /\ UNCHANGED << proxyReq, failure >>
    /\ UNCHANGED << clientVars, proc, config, files, io, req, handler, urlIn >>

\* the body of the upstream's answer has been piped to the end
RelayEnds(i) ==
    /\ proc = Running
    /\ phase[i] = "relaying"
    /\ phase' = [phase EXCEPT ![i] = "responded"]
    /\ UNCHANGED << clientVars, proc, config, files, io, req, proxyReq, proxyRes, res,
                    handler, failure, urlIn >>

\* the phases of the connections once the process is gone: what was in flight
\* is destroyed
Destroyed ==
    [j \in Slots |-> IF phase[j] \in {"awaiting", "resolving", "relaying"}
                     THEN "destroyed" ELSE phase[j]]

\* the connection to the upstream is reset while the body is piped: onError
\* runs on a response whose headers are sent, res.status(500).json(...) throws
\* in the event handler and the uncaught exception ends the process
RelayFails(i) ==
    /\ proc = Running
    /\ phase[i] = "relaying"
    /\ failure' = [failure EXCEPT ![i] = "ECONNRESET"]
    /\ proc' = [state |-> "crashed", exitCode |-> 1]
    /\ phase' = Destroyed
    /\ UNCHANGED << clientVars, config, files, io, req, proxyReq, proxyRes, res, handler, urlIn >>

\* process.on('SIGTERM' / 'SIGINT')
onSignal(sig) == [state |-> "exited", exitCode |-> 0]

Signals == {"SIGTERM", "SIGINT"}

\* a handler that lets the requests in flight finish before it exits
Signal_afterDrain(sig) ==
    /\ proc = Running
    /\ \A j \in Slots : phase[j] \notin {"awaiting", "resolving", "relaying"}
    /\ proc' = onSignal(sig)
    /\ phase' = Destroyed
    /\ UNCHANGED << clientVars, config, files, io, req, proxyReq, proxyRes, res, handler, failure, urlIn >>

Signal(sig) ==
    /\ proc = Running
    /\ proc' = onSignal(sig)
    /\ phase' = Destroyed
    /\ UNCHANGED << clientVars, config, files, io, req, proxyReq, proxyRes, res, handler, failure, urlIn >>

\* the outgoing request fails: onError
UpstreamFails(i, code) ==
    /\ proc = Running
    /\ phase[i] = "awaiting"
    /\ res' = [res EXCEPT ![i] = onError(Err(code), req[i], res[i])]
    /\ failure' = [failure EXCEPT ![i] = code]
    /\ phase' = [phase EXCEPT ![i] = "responded"]
    /\ UNCHANGED << clientVars, proc, config, files, io, req, proxyReq, proxyRes, handler, urlIn >>

\* proxyTimeout expires on the outgoing request: it is aborted, which raises
\* the error of a reset connection
ProxyTimeout(i) ==
    /\ proc = Running
    /\ phase[i] = "awaiting"
    /\ proxyTimeout > 0
    /\ timeout = 0 \/ proxyTimeout <= timeout
    /\ res' = [res EXCEPT ![i] = onError(Err("ECONNRESET"), req[i], res[i])]
    /\ failure' = [failure EXCEPT ![i] = "proxyTimeout"]
    /\ phase' = [phase EXCEPT ![i] = "responded"]
    /\ UNCHANGED << clientVars, proc, config, files, io, req, proxyReq, proxyRes, handler, urlIn >>

\* timeout expires on the idle inbound socket: no listener handles it, the
\* socket is destroyed and the outgoing request aborted without a response
InboundTimeout(i) ==
    /\ proc = Running
    /\ phase[i] = "awaiting"
    /\ timeout > 0
    /\ proxyTimeout = 0 \/ timeout <= proxyTimeout
    /\ failure' = [failure EXCEPT ![i] = "timeout"]
    /\ phase' = [phase EXCEPT ![i] = "destroyed"]
    /\ UNCHANGED << clientVars, proc, config, files, io, req, proxyReq, proxyRes, res, handler, urlIn >>

\* the connection is done with; the slot takes the next request
Close(i) ==
    /\ proc = Running
    /\ phase[i] \in {"responded", "destroyed"}
    /\ phase' = [phase EXCEPT ![i] = "idle"]
    /\ req' = [req EXCEPT ![i] = NoReq]
    /\ proxyReq' = [proxyReq EXCEPT ![i] = NoProxyReq]
    /\ proxyRes' = [proxyRes EXCEPT ![i] = NoProxyRes]
    /\ res' = [res EXCEPT ![i] = NoRes]
    /\ handler' = [handler EXCEPT ![i] = "none"]
    /\ failure' = [failure EXCEPT ![i] = "none"]
    /\ io' = [io EXCEPT ![i] = {}]
    /\ UNCHANGED << clientVars, proc, config, files, urlIn >>

Requests ==
    { NewRequest(m, url, auth, origin) :
        m \in Methods, url \in ServerUrls, auth \in AuthValues, origin \in OriginValues }

Next ==
    \/ \E sig \in Signals : Signal(sig)
    \/ \E i \in MainSlots :
        \/ \E request \in Requests : Preflight(i, request)
        \/ \E request \in Requests : Health(i, request)
        \/ \E request \in Requests : Forward(i, request)
        \/ \E request \in Requests : StaticLookup(i, request)
        \/ \E request \in Requests : Unrouted(i, request)
        \/ StaticDone(i)
        \/ \E answer \in UpstreamAnswers : UpstreamResponds(i, answer[1], answer[2])
        \/ \E code \in ErrorCodes : UpstreamFails(i, code)
        \/ RelayEnds(i)
        \/ RelayFails(i)
        \/ ProxyTimeout(i)
        \/ InboundTimeout(i)
        \/ Close(i)

Spec == Init /\ [][Next]_vars

(***************************************************************************)
(* The path-rewrite specification: the proxy middleware on every URL under *)
(* /api made of at most MaxPieces pieces.                                  *)
(***************************************************************************)
Pieces == { S_management, S_platformmanager, S_x, S_slash, S_query }

RECURSIVE Concats(_)
Concats(n) ==
    IF n = 0 THEN { << >> }
    ELSE LET shorter == Concats(n - 1)
         IN  shorter \cup { p \o q : p \in shorter, q \in Pieces }

GenUrls == { S_api \o t : t \in Concats(MaxPieces) }

InitRewrite ==
    /\ NoBrowser
    /\ proc = Running
    /\ config = Config
    /\ files = {S_indexHtml, S_appJs}
    /\ phase = [i \in Slots |-> "idle"]
    /\ io = [i \in Slots |-> {}]
    /\ req = [i \in Slots |-> NoReq]
    /\ proxyReq = [i \in Slots |-> NoProxyReq]
    /\ proxyRes = [i \in Slots |-> NoProxyRes]
    /\ res = [i \in Slots |-> NoRes]
    /\ handler = [i \in Slots |-> "none"]
    /\ failure = [i \in Slots |-> "none"]
    /\ urlIn \in GenUrls

NextRewrite ==
    \E i \in MainSlots :
        \/ Forward(i, NewRequest("GET", urlIn, Absent, Absent))
        \/ \E code \in {"ECONNREFUSED"} : UpstreamFails(i, code)

SpecRewrite == InitRewrite /\ [][NextRewrite]_vars

(***************************************************************************)
(* Properties.                                                             *)
(***************************************************************************)
Active(i) == phase[i] # "idle"
Proxied(i) == Active(i) /\ handler[i] = "proxy"

\* C1: a request under /api that carries an Authorization header is forwarded
\* to the upstream with an Authorization header of exactly the same value.
C1_AuthorizationPreserved ==
    \A i \in Slots :
        (Proxied(i) /\ req[i].headers.authorization # Absent)
            => proxyReq[i].headers.authorization = req[i].headers.authorization

C1_Witness ==
    \E i \in Slots :
        /\ Proxied(i)
        /\ req[i].headers.authorization = "Bearer t1"
        /\ proxyReq[i].headers.authorization = "Bearer t1"
        /\ proxyReq[i].path = S_v1

\* the path of a request once the mount path /api is taken off
AfterMount(i) == StripMount(req[i].originalUrl)

ManagementPlatformManagerSlash == S_management \o S_platformmanager \o S_slash

\* C2: a proxied path that begins with /management/platformmanager/ once /api
\* is stripped is sent upstream with the leading /management removed.
C2_PlatformManagerRewritten ==
    \A i \in Slots :
        (Proxied(i) /\ StartsWith(AfterMount(i), ManagementPlatformManagerSlash))
            => proxyReq[i].path = Drop(AfterMount(i), Len(S_management))

C2_Witness ==
    \E i \in Slots :
        /\ Proxied(i)
        /\ req[i].originalUrl = S_api \o S_management \o S_platformmanager \o S_slash \o S_x
        /\ proxyReq[i].path = S_platformmanager \o S_slash \o S_x

\* C3: the rewrite changes a proxied path only by removing the /management that
\* stands directly before a whole segment platformmanager; every other path,
\* among them /management/platformmanager without a trailing slash and paths
\* where /platformmanager/ occurs only later or in the query string, is
\* forwarded unchanged.
C3_RewriteOnlyWholeSegment ==
    \A i \in Slots :
        Proxied(i) =>
            proxyReq[i].path =
                IF StartsWith(AfterMount(i), ManagementPlatformManagerSlash)
                THEN Drop(AfterMount(i), Len(S_management))
                ELSE AfterMount(i)

\* a path that is /api or lies below it, compared without regard to case
UnderApi(url) ==
    LET p == ToLower(Pathname(url))
    IN  p = S_api \/ StartsWith(p, S_apiSlash)

ForwardedUpstream(i) == proxyReq[i] # NoProxyReq
ServedFromFiles(i) == handler[i] \in {"static", "spa"}
FiveMethods == {"GET", "POST", "PUT", "DELETE", "PATCH"}

\* C4 as stated: for GET, POST, PUT, DELETE and PATCH a request is forwarded
\* upstream if and only if its path begins with /api, and a request whose path
\* does not begin with /api is handled as a static-asset or SPA-routing request.
C4_Original ==
    \A i \in Slots :
        (Active(i) /\ req[i].method \in FiveMethods) =>
            /\ ForwardedUpstream(i) <=> StartsWith(req[i].originalUrl, S_api)
            /\ ~ StartsWith(req[i].originalUrl, S_api) => ServedFromFiles(i)

\* C4 amended: for GET, POST, PUT, DELETE and PATCH a request is forwarded
\* upstream if and only if its path is /api or lies below /api/ (compared
\* case-insensitively); any other request is never forwarded: GET /health is
\* answered by the health route, any other GET is handled as a static-asset
\* or SPA-routing request, and the other methods are answered 404.
C4_ForwardedIffUnderApi ==
    \A i \in Slots :
        (Active(i) /\ req[i].method \in FiveMethods) =>
            /\ ForwardedUpstream(i) <=> UnderApi(req[i].originalUrl)
            /\ handler[i] = "proxy" <=> UnderApi(req[i].originalUrl)
            /\ ~ UnderApi(req[i].originalUrl) =>
                 IF req[i].method # "GET" THEN handler[i] = "none" /\ res[i].status = 404
                 ELSE IF HealthMatches(req[i].originalUrl) THEN handler[i] = "health"
                 ELSE ServedFromFiles(i)

C4_Witness ==
    \E i \in Slots :
        /\ Active(i)
        /\ req[i].method = "POST"
        /\ req[i].originalUrl = S_API \o S_v1
        /\ ForwardedUpstream(i)
        /\ proxyReq[i].path = S_v1

C6_Original ==
    \A i \in Slots :
        Active(i) => (ForwardedUpstream(i) <=> ~ ServedFromFiles(i))

\* C6 amended: no request is both forwarded upstream and answered from the
\* static file set, and a request gets neither destination exactly when the
\* proxy answers it itself: an OPTIONS request (CORS 204), GET /health, or a
\* request outside /api whose method is not GET (404).
C6_AtMostOneDestination ==
    \A i \in Slots :
        Active(i) =>
            /\ ~ (ForwardedUpstream(i) /\ ServedFromFiles(i))
            /\ (~ ForwardedUpstream(i) /\ ~ ServedFromFiles(i)) <=>
                 \/ req[i].method = "OPTIONS"
                 \/ req[i].method = "GET" /\ HealthMatches(req[i].originalUrl)
                 \/ req[i].method # "GET" /\ ~ UnderApi(req[i].originalUrl)

C6_Witness ==
    \E i \in Slots :
        /\ phase[i] = "responded"
        /\ req[i].method = "GET"
        /\ req[i].originalUrl = S_health
        /\ handler[i] = "health"
        /\ ~ ForwardedUpstream(i)
        /\ ~ ServedFromFiles(i)

Relayed(i) == phase[i] = "responded" /\ handler[i] = "proxy" /\ failure[i] = "none"

\* C7: every upstream response relayed to the caller carries
\* Access-Control-Allow-Origin equal to the request's Origin, or * when it had
\* none, and Access-Control-Allow-Credentials: true, whatever CORS headers the
\* upstream sent.
C7_CorsHeadersOnRelay ==
    \A i \in Slots :
        Relayed(i) =>
            /\ res[i].headers[ACAO] =
                 IF req[i].headers.origin # Absent THEN req[i].headers.origin ELSE "*"
            /\ res[i].headers[ACAC] = "true"

\* the upstream sent CORS headers of its own and the caller had no Origin
C7_Witness ==
    \E i \in Slots :
        /\ Relayed(i)
        /\ req[i].headers.origin = Absent
        /\ proxyRes[i].headers = << << ACAO, "https://other.example" >>, << ACAC, "false" >> >>
        /\ res[i].body = UpstreamBody
        /\ res[i].headers[ACAO] = "*"
        /\ res[i].headers[ACAC] = "true"

TransportFailed(i) == phase[i] \in {"responded", "destroyed"} /\ failure[i] # "none"

\* C8: any transport-level failure of the upstream call (connection refused,
\* timeout, TLS failure) ends in a 5xx response whose JSON body has an error
\* kind, a message and a path; the failure is never silently dropped.
C8_FailureAnswered5xx ==
    \A i \in Slots :
        TransportFailed(i) =>
            /\ phase[i] = "responded"
            /\ res[i].status \in 500..599
            /\ res[i].body.type = "json"
            /\ {"error", "message", "path"} \subseteq DOMAIN res[i].body

ErrorAnswered(i) == phase[i] = "responded" /\ failure[i] # "none"

\* C9: the path field of the error body equals the original request path as
\* the caller sent it, with the /api prefix and before any rewrite.
C9_ErrorPathIsOriginal ==
    \A i \in Slots :
        ErrorAnswered(i) => res[i].body.path = req[i].originalUrl

\* the responses the upstream can have relayed for a request
RelayedResponses(request) ==
    { relay(onProxyRes([statusCode |-> st, headers |-> hs, body |-> UpstreamBody], request),
            corsHeaders(request, NoRes)) :
        st \in UpstreamStatuses, hs \in UpstreamHeaderLists }

\* the response of the proxy to a transport error of the given code
FailureResponse(code, request) ==
    onError(Err(code), request, corsHeaders(request, NoRes))

\* C10: the 5xx response the proxy returns when the upstream call times out
\* differs both from every response relayed from the upstream and from the
\* response to every other proxy-side failure.
C10_TimeoutDistinguishable ==
    \A i \in Slots :
        (phase[i] = "responded" /\ failure[i] = "proxyTimeout") =>
            /\ res[i].status \in 500..599
            /\ res[i] \notin RelayedResponses(req[i])
            /\ \A code \in ErrorCodes : res[i] # FailureResponse(code, req[i])

(***************************************************************************)
(* C11                                                                     *)
(***************************************************************************)
\* C11: every request handed to the proxy receives a response, the upstream's
\* answer relayed or the error response of onError: while the process runs, a
\* proxied request leaves the awaiting state only with a response being written
C11_AwaitingEndsInResponse ==
    [][\A i \in Slots :
          (Proxied(i) /\ phase[i] = "awaiting" /\ phase'[i] # "awaiting"
              /\ proc' = Running)
          => /\ phase'[i] \in {"relaying", "responded"}
             /\ res'[i].status # 0]_vars

(***************************************************************************)
(* C12                                                                     *)
(***************************************************************************)
SpaDocument == [type |-> "file", file |-> S_indexHtml]

NoStaticAsset(i) == StaticFile(Pathname(req[i].originalUrl)) \notin files

Answered(i) == phase[i] \in {"relaying", "responded"}

ApiNotFound(i) ==
    /\ res[i].body.type = "json"
    /\ res[i].status = 404
    /\ res[i].body.error = "API endpoint not found"

\* C13 as stated: an answered request whose path begins with /api never has the
\* entry document as its body, and when it is not handled by the proxy its
\* response is a 404 with a JSON error body.
C13_Original ==
    \A i \in Slots :
        (Answered(i) /\ StartsWith(Pathname(req[i].originalUrl), S_api))
        => /\ res[i].body # SpaDocument
           /\ handler[i] # "proxy" => (res[i].status = 404 /\ res[i].body.type = "json")

\* C13: a request whose path is /api or below /api/ is taken by the CORS
\* middleware (OPTIONS) or by the proxy, never reads the static root and is
\* never answered with the entry document; the JSON 404 of app.get('*') is
\* never produced.
C13_ApiNeverServedSpa ==
    \A i \in Slots :
        /\ (Active(i) /\ UnderApi(req[i].originalUrl))
           => /\ handler[i] \in {"cors", "proxy"}
              /\ "fs" \notin io[i]
              /\ res[i].body # SpaDocument
        /\ ~ApiNotFound(i)

C13_Witness ==
    \E i \in Slots :
        /\ phase[i] = "responded"
        /\ req[i].method = "GET"
        /\ req[i].originalUrl = S_api
        /\ handler[i] = "proxy"
        /\ res[i].status = 404
        /\ res[i].body = UpstreamBody

(***************************************************************************)
(* Serving one asset of every file type from the static root.              *)
(***************************************************************************)
\* extensions of files the hook names no header for
OtherExts == { << >>, << ".", "t", "x", "t" >>, << ".", "j", "s", "o", "n" >>,
               << ".", "m", "a", "p" >> }

AssetBases == { << "/", "a" >>, << "/", "a", ".", "j", "s" >>,
                << "/", "a", ".", "h", "t", "m", "l" >>,
                << "/", "a", ".", "p", "n", "g" >> }

AssetNames ==
    { b \o e : b \in AssetBases,
                e \in {Ext_html} \cup LongLivedExts \cup MediumLivedExts \cup OtherExts }

InitAssets ==
    /\ NoBrowser
    /\ proc = Running
    /\ config = Config
    /\ urlIn \in AssetNames
    /\ files = {urlIn}
    /\ phase = [i \in Slots |-> "idle"]
    /\ io = [i \in Slots |-> {}]
    /\ req = [i \in Slots |-> NoReq]
    /\ proxyReq = [i \in Slots |-> NoProxyReq]
    /\ proxyRes = [i \in Slots |-> NoProxyRes]
    /\ res = [i \in Slots |-> NoRes]
    /\ handler = [i \in Slots |-> "none"]
    /\ failure = [i \in Slots |-> "none"]

NextAssets ==
    \E i \in MainSlots :
        \/ StaticLookup(i, NewRequest("GET", urlIn, Absent, Absent))
        \/ StaticDone(i)

SpecAssets == InitAssets /\ [][NextAssets]_vars

(***************************************************************************)
(* C14                                                                     *)
(***************************************************************************)
CacheClasses == {"html", "script-style", "image-font"}

InClass(c, f) ==
    CASE c = "html" -> EndsWith(f, Ext_html)
      [] c = "script-style" -> \E e \in LongLivedExts : EndsWith(f, e)
      [] c = "image-font" -> \E e \in MediumLivedExts : EndsWith(f, e)

ClassHeader(c) ==
    CASE c = "html" -> "no-cache, no-store, must-revalidate"
      [] c = "script-style" -> "public, max-age=31536000, immutable"
      [] c = "image-font" -> "public, max-age=604800"

ServedStatic(i) == phase[i] = "responded" /\ handler[i] = "static"

\* C14 as stated: every file served from the static root falls in exactly one
\* of the three classes and carries the Cache-Control of its class.
C14_Original ==
    \A i \in Slots :
        ServedStatic(i) =>
            \E c \in CacheClasses :
                /\ InClass(c, res[i].body.file)
                /\ \A d \in CacheClasses \ {c} : ~InClass(d, res[i].body.file)
                /\ res[i].headers["cache-control"] = ClassHeader(c)

\* C14: a file served from the static root falls in at most one of the three
\* classes by its extension and then carries the Cache-Control of its class; a
\* file of no class carries none of the three values; the header of a .js file
\* is never the one of an .html file.
C14_CacheControlByFileType ==
    \A i \in Slots :
        ServedStatic(i) =>
            LET f == res[i].body.file
                cc == res[i].headers["cache-control"]
            IN  /\ \A c \in CacheClasses :
                      InClass(c, f) =>
                          /\ cc = ClassHeader(c)
                          /\ \A d \in CacheClasses \ {c} : ~InClass(d, f)
                /\ (\A c \in CacheClasses : ~InClass(c, f))
                      => /\ cc = "public, max-age=0"
                         /\ \A c \in CacheClasses : cc # ClassHeader(c)
                /\ EndsWith(f, << ".", "j", "s" >>) => cc # ClassHeader("html")

C14_Witness ==
    \E i \in Slots :
        /\ ServedStatic(i)
        /\ res[i].body.file = << "/", "a", ".", "p", "n", "g", ".", "j", "s" >>
        /\ res[i].headers["cache-control"] = "public, max-age=31536000, immutable"

(***************************************************************************)
(* C18                                                                     *)
(***************************************************************************)
UpstreamAnswered(i) ==
    /\ Proxied(i)
    /\ phase[i] \in {"awaiting", "relaying", "responded"}
    /\ proxyRes[i] # NoProxyRes

\* C18 as stated: once the upstream has answered a proxied request, the
\* request sent upstream has the caller's method and body, and the response is
\* the upstream's answer, with its status and its body, 3xx included.
C18_Original ==
    \A i \in Slots :
        UpstreamAnswered(i) =>
            /\ proxyReq[i].method = req[i].method
            /\ proxyReq[i].body = req[i].body
            /\ Answered(i)
            /\ res[i].status = proxyRes[i].statusCode
            /\ res[i].body = proxyRes[i].body

\* C18: the request first sent upstream has the caller's method and body; an
\* answer of the upstream that is not a redirect is relayed with its status and
\* body unchanged (304 included); a redirect is never relayed but followed, a
\* POST being sent again as a GET without body after a 302.
C18_RelayedUnchanged ==
    \A i \in Slots :
        Proxied(i) =>
            /\ proxyReq[i].redirects = 0
                  => /\ proxyReq[i].method = req[i].method
                     /\ proxyReq[i].body = req[i].body
            /\ proxyReq[i].redirects > 0
                  => /\ proxyReq[i].method =
                            IF req[i].method = "POST" THEN "GET" ELSE req[i].method
                     /\ proxyReq[i].body =
                            IF req[i].method = "POST" THEN "" ELSE req[i].body
            /\ (Answered(i) /\ failure[i] = "none")
                  => /\ res[i].status = proxyRes[i].statusCode
                     /\ res[i].body = proxyRes[i].body
                     /\ ~IsRedirect(res[i].status)

C18_Witness ==
    \E i \in Slots :
        /\ Proxied(i)
        /\ phase[i] = "responded"
        /\ failure[i] = "none"
        /\ req[i].method = "POST"
        /\ proxyReq[i].method = "POST"
        /\ proxyReq[i].body = "payload"
        /\ res[i].status = 304
        /\ res[i].body = UpstreamBody

(***************************************************************************)
(* C17                                                                     *)
(***************************************************************************)
\* the entry document was asked of the file system and is not there
EntryDocumentMissing(i) ==
    /\ phase[i] = "responded"
    /\ handler[i] = "spa"
    /\ S_indexHtml \notin files

\* C17: no error of the upstream or of the file system ends the process, and
\* a request that finds build/index.html missing is answered with an error
\* response.
C17_ErrorsNeverCrash ==
    /\ proc.state # "crashed"
    /\ \A i \in Slots :
          EntryDocumentMissing(i) => (res[i].status >= 400 /\ res[i].body # NoBody)

(***************************************************************************)
(* C19                                                                     *)
(***************************************************************************)
InFlight(i) == phase[i] \in {"awaiting", "resolving", "relaying"}

\* C19: in every state of the running process, whatever requests are in
\* flight, SIGTERM and SIGINT are handled at once, and a process that ended on
\* a signal ended with exit code 0 and left no request in flight.
C19_SignalExitsZero ==
    /\ proc = Running => \A sig \in Signals : ENABLED Signal(sig)
    /\ proc.state = "exited"
          => /\ proc.exitCode = 0
             /\ \A i \in Slots : ~InFlight(i)

C19_Witness ==
    /\ proc.state = "exited"
    /\ proc.exitCode = 0
    /\ \E i \in Slots :
          /\ phase[i] = "destroyed"
          /\ handler[i] = "proxy"
          /\ failure[i] = "none"
          /\ res[i].status = 0

(***************************************************************************)
(* The concurrency specification: every slot takes requests, so that       *)
(* requests are in flight together, over a small set of requests.          *)
(***************************************************************************)
ConcRequests ==
    { NewRequest("GET", S_health, Absent, Absent),
      NewRequest("GET", S_api \o S_v1, Absent, "https://app.example"),
      NewRequest("POST", S_api \o S_v1, "Bearer t1", Absent),
      NewRequest("GET", S_dash, Absent, Absent),
      NewRequest("GET", S_appJs, Absent, Absent),
      NewRequest("OPTIONS", S_api \o S_v1, Absent, "https://app.example"),
      NewRequest("POST", S_dash, Absent, Absent) }

ConcAnswers == { << 200, << >> >> }

ConcErrors == {"ECONNREFUSED"}

InitConc ==
    /\ InitServer
    /\ NoBrowser
    /\ files = {S_indexHtml, S_appJs}
    /\ urlIn = << >>

NextConc ==
    \/ \E sig \in Signals : Signal(sig)
    \/ \E i \in Slots :
        \/ \E request \in ConcRequests : Preflight(i, request)
        \/ \E request \in ConcRequests : Health(i, request)
        \/ \E request \in ConcRequests : Forward(i, request)
        \/ \E request \in ConcRequests : StaticLookup(i, request)
        \/ \E request \in ConcRequests : Unrouted(i, request)
        \/ StaticDone(i)
        \/ \E answer \in ConcAnswers : UpstreamResponds(i, answer[1], answer[2])
        \/ \E code \in ConcErrors : UpstreamFails(i, code)
        \/ RelayEnds(i)
        \/ RelayFails(i)
        \/ ProxyTimeout(i)
        \/ InboundTimeout(i)
        \/ Close(i)

SpecConc == InitConc /\ [][NextConc]_vars

(***************************************************************************)
(* C15                                                                     *)
(***************************************************************************)
HealthRequest == NewRequest("GET", S_health, Absent, Absent)

IsHealthRequest(i) ==
    Active(i) /\ req[i].method = "GET" /\ HealthMatches(req[i].originalUrl)

\* C15: while the process runs a GET /health can be taken by every idle
\* connection, whatever the other requests and the upstream do, and it is
\* answered at once with status 200 and a JSON body with a status and a
\* timestamp, without a request to the upstream and without a file read.
C15_HealthAlways200 ==
    \A i \in Slots :
        /\ (proc = Running /\ phase[i] = "idle") => ENABLED Health(i, HealthRequest)
        /\ IsHealthRequest(i)
              => /\ phase[i] = "responded"
                 /\ res[i].status = 200
                 /\ res[i].headers["content-type"] = "application/json"
                 /\ res[i].body.type = "json"
                 /\ {"status", "timestamp"} \subseteq DOMAIN res[i].body
                 /\ io[i] = {}
                 /\ proxyReq[i] = NoProxyReq

\* a health request answered after another request found the upstream
\* unreachable
C15_Witness ==
    \E i, j \in Slots :
        /\ IsHealthRequest(i)
        /\ res[i].status = 200
        /\ Proxied(j)
        /\ failure[j] = "ECONNREFUSED"

(***************************************************************************)
(* C16                                                                     *)
(***************************************************************************)
\* the chain takes the request on connection i
Routed(i, request) ==
    \/ Preflight(i, request)
    \/ Health(i, request)
    \/ Forward(i, request)
    \/ StaticLookup(i, request)
    \/ Unrouted(i, request)

Arrived(i) == [req[i] EXCEPT !.url = req[i].originalUrl]

\* the response to the request of connection i computed from that request,
\* the files of the static root and the outcome of its own upstream call
ResponseFor(i) ==
    LET request == Arrived(i)
        base == corsHeaders(request, NoRes)
        d == Dispatch(request)
        file == StaticFile(Pathname(request.url))
    IN  CASE d = "cors" -> corsPreflight(request, NoRes)
          [] d = "health" -> healthHandler(base)
          [] d = "none" -> notFound(base)
          [] d = "static" -> IF file \in files THEN serveStatic(base, file)
                             ELSE catchAll(request, base, files)
          [] d = "proxy" ->
                IF failure[i] = "none" THEN relay(onProxyRes(proxyRes[i], req[i]), base)
                ELSE IF failure[i] = "proxyTimeout"
                     THEN onError(Err("ECONNRESET"), req[i], base)
                ELSE onError(Err(failure[i]), req[i], base)

\* C20: the configuration of the process never changes, and for every
\* request the middleware that takes it is decided by the request alone and
\* its response is the one computed from the request, the static root and the
\* outcome of its own upstream call, whatever the other connections held
\* before or hold now.
C20_Stateless ==
    /\ config = Config
    /\ \A i \in Slots :
          Active(i) =>
              /\ handler[i] = Dispatch(Arrived(i))
                    \/ (handler[i] = "spa" /\ Dispatch(Arrived(i)) = "static")
              /\ Answered(i) => res[i] = ResponseFor(i)

\* the same request answered on two connections, one of them handled while
\* the other was in flight: the responses are the same
C20_Witness ==
    \E i, j \in Slots :
        /\ i # j
        /\ Proxied(i) /\ Proxied(j)
        /\ req[i] = req[j]
        /\ req[i].headers.origin # Absent
        /\ phase[i] = "responded" /\ phase[j] = "responded"
        /\ failure[i] = "none" /\ failure[j] = "none"
        /\ res[i] = res[j]
        /\ res[i].status = 200

(***************************************************************************)
(* C21                                                                     *)
(***************************************************************************)
NoCacheDirectives(r) ==
    /\ r.headers["cache-control"] = "no-cache, no-store, must-revalidate"
    /\ r.headers["pragma"] = "no-cache"
    /\ r.headers["expires"] = "0"

\* C21: every response whose body is the entry document carries the three
\* no-cache headers, whether express.static served it for / or /index.html or
\* app.get('*') sent it for a client route.
C21_EntryDocumentNeverCached ==
    \A i \in Slots :
        (Answered(i) /\ res[i].body = SpaDocument) => NoCacheDirectives(res[i])

\* the entry document delivered by both routes is covered: here by the
\* catch-all for a client route
C21_Witness ==
    \E i \in Slots :
        /\ phase[i] = "responded"
        /\ handler[i] = "spa"
        /\ req[i].originalUrl = S_dash
        /\ res[i].body = SpaDocument
        /\ NoCacheDirectives(res[i])

(***************************************************************************)
(* C22                                                                     *)
(***************************************************************************)
\* C22: the path sent upstream is the rewrite of the path below the mount,
\* and rewriting it once more leaves it as it is.
C22_RewriteIdempotent ==
    \A i \in Slots :
        Proxied(i) =>
            LET p == AfterMount(i)
            IN  /\ proxyReq[i].path = pathRewrite(p)
                /\ pathRewrite(pathRewrite(p)) = pathRewrite(p)

\* a path that the rewrite shortened and that still holds both /management
\* and /platformmanager/ after it
C22_Witness ==
    \E i \in Slots :
        /\ Proxied(i)
        /\ AfterMount(i) =
              S_management \o S_platformmanager \o S_management \o S_platformmanager
                  \o S_slash
        /\ proxyReq[i].path =
              S_platformmanager \o S_management \o S_platformmanager \o S_slash
        /\ pathRewrite(proxyReq[i].path) = proxyReq[i].path

(***************************************************************************)
(* C23                                                                     *)
(***************************************************************************)
\* the upstream's answer has been written to the response
RelayStarted(i) == res[i].body = UpstreamBody

\* onError has run for the request
ErrorHandlerRan(i) == failure[i] \notin {"none", "timeout"}

\* C23: for no proxied request does onError run on a response to which the
\* upstream's answer has already started to be relayed.
C23_OneOutcome ==
    \A i \in Slots : Proxied(i) => ~(RelayStarted(i) /\ ErrorHandlerRan(i))

(***************************************************************************)
(* The browser application: ApiService (services/api) and the logout of    *)
(* the App component. A method runs from one await to the next in one      *)
(* step; the controller answers each request in any way it can.            *)
(***************************************************************************)
\* login: the three localStorage.setItem calls
StoreSession(ls, n) ==
    [ls EXCEPT !["access_token"] = AccessTokenOf(n),
               !["refresh_token"] = RefreshTokenOf(n),
               !["admin_role"] = AdminRoleOf(n)]

\* a refresh that stores the access token only
StoreTokens_accessOnly(ls, n) ==
    [ls EXCEPT !["access_token"] = AccessTokenOf(n)]

\* refreshAccessToken: the two localStorage.setItem calls
StoreTokens(ls, n) ==
    [ls EXCEPT !["access_token"] = AccessTokenOf(n),
               !["refresh_token"] = RefreshTokenOf(n)]

\* a logout that leaves the role behind
RemoveSession_keepsRole(ls) ==
    [ls EXCEPT !["access_token"] = Null,
               !["refresh_token"] = Null]

\* logout: the three localStorage.removeItem calls
RemoveSession(ls) ==
    [ls EXCEPT !["access_token"] = Null,
               !["refresh_token"] = Null,
               !["admin_role"] = Null]

isAuthenticated == accessToken # Null

\* what localStorage may hold when the page is opened: nothing, a session, or
\* an access token without a refresh token
StoredSessions ==
    { EmptyStorage,
      StoreSession(EmptyStorage, 0),
      [EmptyStorage EXCEPT !["access_token"] = AccessTokenOf(0)] }

\* new ApiService() and the mount of App
InitClient ==
    /\ InitServer
    /\ files = {S_indexHtml, S_appJs}
    /\ urlIn = << >>
    /\ localStorage \in StoredSessions
    /\ accessToken = localStorage["access_token"]
    /\ refreshToken = localStorage["refresh_token"]
    /\ isAuthenticatedUi = (localStorage["access_token"] # Null)
    /\ call = [c \in Calls |-> NoCall]
    /\ detached = 0
    /\ issued = 0
    /\ submitted = [n \in 0..MaxTokens |-> 0]
    /\ loggedOut = FALSE
    /\ returned = NoReturn

\* a call may start in the first slot that holds none: which slot a call takes
\* is only its name in the model
Idle(c) == call[c] = NoCall /\ \A d \in Calls : d < c => call[d] # NoCall

Started(op, pc) == [NoCall EXCEPT !.op = op, !.pc = pc]

At(c, op, pc) == call[c].op = op /\ call[c].pc = pc

\* the method resolves, or rejects with the message outcome
Returns(op, outcome, revocation, refreshes) ==
    returned' = [op |-> op, outcome |-> outcome, revocation |-> revocation,
                 refreshes |-> refreshes]

\* the end of logout(): the tokens are dropped and the three entries removed
ClearSession ==
    /\ accessToken' = Null
    /\ refreshToken' = Null
    /\ localStorage' = RemoveSession(localStorage)
    /\ loggedOut' = TRUE

KeepSession == UNCHANGED << accessToken, refreshToken, localStorage, loggedOut >>

\* this.logout() without await: the part of logout up to its first await runs.
\* With an access token that is the start of the revocation request, and the
\* session is cleared when that request settles; without one the session is
\* cleared at once.
LogoutNotAwaited ==
    IF accessToken # Null
    THEN detached < MaxDetached /\ detached' = detached + 1 /\ KeepSession
    ELSE ClearSession /\ UNCHANGED detached

(***************************************************************************)
(* ApiService.login                                                        *)
(***************************************************************************)
\* the login form is what App renders while its isAuthenticated state is false
LoginStart(c) ==
    /\ Idle(c)
    /\ ~isAuthenticatedUi
    /\ call' = [call EXCEPT ![c] = Started("login", "awaitResponse")]
    /\ returned' = NoReturn
    /\ KeepSession
    /\ UNCHANGED << detached, isAuthenticatedUi, issued, submitted, serverVars >>

\* response.ok: the token pair and the role are kept and stored, and
\* handleLoginSuccess shows the application
LoginSucceeds(c) ==
    /\ At(c, "login", "awaitResponse")
    /\ issued < MaxTokens
    /\ issued' = issued + 1
    /\ accessToken' = AccessTokenOf(issued')
    /\ refreshToken' = RefreshTokenOf(issued')
    /\ localStorage' = StoreSession(localStorage, issued')
    /\ loggedOut' = FALSE
    /\ isAuthenticatedUi' = TRUE
    /\ call' = [call EXCEPT ![c] = NoCall]
    /\ Returns("login", "resolved", "none", 0)
    /\ UNCHANGED << detached, submitted, serverVars >>

\* the controller refuses the credentials, or the request fails
LoginFails(c) ==
    /\ At(c, "login", "awaitResponse")
    /\ call' = [call EXCEPT ![c] = NoCall]
    /\ Returns("login", "Authentication failed", "none", 0)
    /\ KeepSession
    /\ UNCHANGED << detached, isAuthenticatedUi, issued, submitted, serverVars >>

(***************************************************************************)
(* ApiService.logout                                                       *)
(***************************************************************************)
\* with an access token the revocation request is sent and awaited; without
\* one logout runs to its end
LogoutStart(c) ==
    /\ Idle(c)
    /\ IF accessToken # Null
       THEN /\ call' = [call EXCEPT ![c] = Started("logout", "awaitRevocation")]
            /\ returned' = NoReturn
            /\ KeepSession
       ELSE /\ UNCHANGED call
            /\ Returns("logout", "resolved", "not sent", 0)
            /\ ClearSession
    /\ UNCHANGED << detached, isAuthenticatedUi, issued, submitted, serverVars >>

\* the revocation request settles: answered (ok) or rejected and logged (failed)
LogoutSettles(c, result) ==
    /\ At(c, "logout", "awaitRevocation")
    /\ call' = [call EXCEPT ![c] = NoCall]
    /\ Returns("logout", "resolved", result, 0)
    /\ ClearSession
    /\ UNCHANGED << detached, isAuthenticatedUi, issued, submitted, serverVars >>

\* the revocation request of a logout() nobody awaits settles
DetachedLogoutSettles ==
    /\ detached > 0
    /\ detached' = detached - 1
    /\ ClearSession
    /\ returned' = NoReturn
    /\ UNCHANGED << call, isAuthenticatedUi, issued, submitted, serverVars >>

(***************************************************************************)
(* ApiService.makeAuthenticatedRequest and refreshAccessToken              *)
(***************************************************************************)
RequestStart(c) ==
    /\ Idle(c)
    /\ IF accessToken = Null
       THEN /\ UNCHANGED call
            /\ Returns("makeAuthenticatedRequest", "No access token available", "none", 0)
       ELSE /\ call' = [call EXCEPT ![c] =
                           Started("makeAuthenticatedRequest", "awaitResponse")]
            /\ returned' = NoReturn
    /\ KeepSession
    /\ UNCHANGED << detached, isAuthenticatedUi, issued, submitted, serverVars >>

\* any status but 401: the response is returned
RequestAnswered(c) ==
    /\ At(c, "makeAuthenticatedRequest", "awaitResponse")
    /\ call' = [call EXCEPT ![c] = NoCall]
    /\ Returns("makeAuthenticatedRequest", "resolved", "none", call[c].refreshes)
    /\ KeepSession
    /\ UNCHANGED << detached, isAuthenticatedUi, issued, submitted, serverVars >>

\* fetch rejects, or is aborted after 15 seconds
RequestFails(c) ==
    /\ At(c, "makeAuthenticatedRequest", "awaitResponse")
    /\ call' = [call EXCEPT ![c] = NoCall]
    /\ Returns("makeAuthenticatedRequest", "Request timed out after 15 seconds", "none",
               call[c].refreshes)
    /\ KeepSession
    /\ UNCHANGED << detached, isAuthenticatedUi, issued, submitted, serverVars >>

\* status 401 with a refresh token: refreshAccessToken sends it
RequestUnauthorized(c) ==
    /\ At(c, "makeAuthenticatedRequest", "awaitResponse")
    /\ refreshToken # Null
    /\ call[c].refreshes < MaxRefreshes
    /\ submitted[refreshToken[2]] < MaxRefreshes
    /\ call' = [call EXCEPT ![c].pc = "awaitRefresh", ![c].refreshes = @ + 1]
    /\ submitted' = [submitted EXCEPT ![refreshToken[2]] = @ + 1]
    /\ returned' = NoReturn
    /\ KeepSession
    /\ UNCHANGED << detached, isAuthenticatedUi, issued, serverVars >>

\* status 401 without a refresh token: this.logout(), then the rejection
RequestUnauthenticated(c) ==
    /\ At(c, "makeAuthenticatedRequest", "awaitResponse")
    /\ refreshToken = Null
    /\ LogoutNotAwaited
    /\ call' = [call EXCEPT ![c] = NoCall]
    /\ Returns("makeAuthenticatedRequest", "Authentication required", "none",
               call[c].refreshes)
    /\ UNCHANGED << isAuthenticatedUi, issued, submitted, serverVars >>

\* the refresh is answered with a new token pair, which is kept and stored; the
\* request is made again with the new access token
RefreshSucceeds(c) ==
    /\ At(c, "makeAuthenticatedRequest", "awaitRefresh")
    /\ issued < MaxTokens
    /\ issued' = issued + 1
    /\ accessToken' = AccessTokenOf(issued')
    /\ refreshToken' = RefreshTokenOf(issued')
    /\ localStorage' = StoreTokens(localStorage, issued')
    /\ call' = [call EXCEPT ![c].pc = "awaitResponse"]
    /\ returned' = NoReturn
    /\ UNCHANGED << loggedOut, detached, isAuthenticatedUi, submitted, serverVars >>

\* the refresh is refused, fails or times out: this.logout(), then the rejection
RefreshFails(c) ==
    /\ At(c, "makeAuthenticatedRequest", "awaitRefresh")
    /\ LogoutNotAwaited
    /\ call' = [call EXCEPT ![c] = NoCall]
    /\ Returns("makeAuthenticatedRequest", "Session expired. Please login again.", "none",
               call[c].refreshes)
    /\ UNCHANGED << isAuthenticatedUi, issued, submitted, serverVars >>

(***************************************************************************)
(* App.handleLogout: apiService.logout() raced against a 5 second timer    *)
(***************************************************************************)
LogoutTimeout == 5000

\* the Logout button belongs to what App renders once isAuthenticated is true
HandleLogoutStart(c) ==
    /\ Idle(c)
    /\ isAuthenticatedUi
    /\ IF accessToken # Null
       THEN /\ call' = [call EXCEPT ![c] = Started("handleLogout", "racing")]
            /\ returned' = NoReturn
            /\ KeepSession
            /\ UNCHANGED isAuthenticatedUi
       ELSE /\ UNCHANGED call
            /\ Returns("handleLogout", "resolved", "not sent", 0)
            /\ ClearSession
            /\ isAuthenticatedUi' = FALSE
    /\ UNCHANGED << detached, issued, submitted, serverVars >>

\* the revocation request settles before the timer: logout() resolves and wins
HandleLogoutSettles(c, result) ==
    /\ At(c, "handleLogout", "racing")
    /\ call' = [call EXCEPT ![c] = NoCall]
    /\ Returns("handleLogout", "resolved", result, 0)
    /\ ClearSession
    /\ isAuthenticatedUi' = FALSE
    /\ UNCHANGED << detached, issued, submitted, serverVars >>

\* the timer wins: the login form is shown and logout() goes on unawaited
HandleLogoutTimesOut(c) ==
    /\ At(c, "handleLogout", "racing")
    /\ LogoutTimeout > 0
    /\ detached < MaxDetached
    /\ detached' = detached + 1
    /\ call' = [call EXCEPT ![c] = NoCall]
    /\ Returns("handleLogout", "Logout timed out", "pending", 0)
    /\ isAuthenticatedUi' = FALSE
    /\ KeepSession
    /\ UNCHANGED << issued, submitted, serverVars >>

\* the page is loaded again: what was running is gone, a new ApiService reads
\* localStorage and App shows the application if isAuthenticated()
Reload ==
    /\ accessToken' = localStorage["access_token"]
    /\ refreshToken' = localStorage["refresh_token"]
    /\ isAuthenticatedUi' = (localStorage["access_token"] # Null)
    /\ call' = [c \in Calls |-> NoCall]
    /\ detached' = 0
    /\ returned' = NoReturn
    /\ UNCHANGED << localStorage, loggedOut, issued, submitted, serverVars >>

RevocationResults == {"ok", "failed"}

NextClient ==
    \/ DetachedLogoutSettles
    \/ Reload
    \/ \E c \in Calls :
        \/ LoginStart(c)
        \/ LoginSucceeds(c)
        \/ LoginFails(c)
        \/ LogoutStart(c)
        \/ \E result \in RevocationResults : LogoutSettles(c, result)
        \/ RequestStart(c)
        \/ RequestAnswered(c)
        \/ RequestFails(c)
        \/ RequestUnauthorized(c)
        \/ RequestUnauthenticated(c)
        \/ RefreshSucceeds(c)
        \/ RefreshFails(c)
        \/ HandleLogoutStart(c)
        \/ \E result \in RevocationResults : HandleLogoutSettles(c, result)
        \/ HandleLogoutTimesOut(c)

SpecClient == InitClient /\ [][NextClient]_vars

(***************************************************************************)
(* Properties of the browser application                                   *)
(***************************************************************************)
SessionCleared ==
    /\ accessToken = Null
    /\ refreshToken = Null
    /\ localStorage["access_token"] = Null
    /\ localStorage["refresh_token"] = Null

Rejected(message) ==
    returned.op = "makeAuthenticatedRequest" /\ returned.outcome = message

\* C24: when ApiService.logout() resolves, accessToken and refreshToken are
\* null and the localStorage entries access_token, refresh_token and
\* admin_role are removed, whether the revocation request succeeded, failed or
\* was not sent for want of an access token.
C24_LogoutClearsSession ==
    (returned.op = "logout" /\ returned.revocation \in {"ok", "failed", "not sent"})
        => SessionCleared /\ localStorage["admin_role"] = Null

\* logout() has just resolved although its revocation request failed, and a
\* session that was stored with its role is gone
C24_Witness ==
    /\ returned.op = "logout"
    /\ returned.revocation = "failed"
    /\ issued > 0
    /\ localStorage = EmptyStorage
    /\ accessToken = Null

\* C25: a call of makeAuthenticatedRequest refreshes and retries at most
\* once: after a second 401 it rejects instead of refreshing again.
C25_AtMostOneRefresh ==
    \A c \in Calls : call[c].refreshes <= 1

\* C26: when makeAuthenticatedRequest rejects with 'Session expired. Please
\* login again.' or 'Authentication required', the session is cleared at that
\* moment: the tokens are null, the stored token entries are removed and
\* isAuthenticated() is false.
C26_RejectionFindsSessionCleared ==
    (Rejected("Session expired. Please login again.") \/ Rejected("Authentication required"))
        => SessionCleared /\ ~isAuthenticated

\* C27: once a logout() has resolved, isAuthenticated() stays false and
\* localStorage holds no access_token until a login() succeeds, whatever
\* requests and refreshes were in flight when logout was called.
C27_LoggedOutUntilLogin ==
    loggedOut => ~isAuthenticated /\ localStorage["access_token"] = Null

\* C28: at most one token refresh is in flight at a time, so a refresh token
\* is submitted to /v1/oauth2/refreshToken once only.
C28_OneRefreshInFlight ==
    Cardinality({ c \in Calls : call[c].pc = "awaitRefresh" }) <= 1

\* C29: when App.handleLogout has finished and the login form is shown,
\* apiService holds no session, also when the revocation request outlasts the
\* 5 second timer: the tokens are null and the stored token entries removed.
C29_LoginFormMeansNoSession ==
    (returned.op = "handleLogout" /\ ~isAuthenticatedUi) => SessionCleared

\* C30: between the synchronous steps of the ApiService methods the tokens
\* in memory equal the localStorage entries access_token and refresh_token,
\* after every sequence of logins, refreshes and logouts.
C30_MemoryMatchesStorage ==
    /\ accessToken = localStorage["access_token"]
    /\ refreshToken = localStorage["refresh_token"]

\* refreshes have replaced the token pair of a stored session up to the last
\* pair the controller issues; the role is still the one stored with the session
C30_Witness ==
    /\ accessToken = AccessTokenOf(MaxTokens)
    /\ refreshToken = RefreshTokenOf(MaxTokens)
    /\ localStorage["admin_role"] # Null
    /\ localStorage["admin_role"] # AdminRoleOf(MaxTokens)
====
